---- MODULE Spec2Model ----
(***************************************************************************)
(* Ticket store of samreensami/todo-phase1.                                *)
(*                                                                         *)
(* Two backing implementations of the store are modelled:                  *)
(*   - the persistent one, backend/storage.py over the `ticket` table of  *)
(*     backend/models.py (specification Spec);                             *)
(*   - the in-memory one used by the CLI of src/cli.py, whose records are  *)
(*     the pydantic Ticket of src/models.py (specification SpecMem).       *)
(***************************************************************************)
EXTENDS Naturals, Integers, Sequences, FiniteSets, TLC

VARIABLES
    db,          \* the ticket table: ticket id -> row
    seq,         \* last value handed out by the table's identity sequence
    now,         \* the clock read by datetime.utcnow (it stands still in Spec and SpecMem)
    last,        \* the last call on the persistent store and what it returned
    deleted,     \* history: ids for which delete returned True
    pristine,    \* history: id -> record returned by create, until an update or delete of that id
    created,     \* history: ids returned by create of the persistent store
    reqs,        \* HTTP requests: slot -> the request, where its handler stands, its response
    tickets,     \* in-memory store: the records of self._tickets in insertion order
    next_id,     \* in-memory store: self._next_id
    cli,         \* the last CLI command, what it displayed and its exit code
    created_ids  \* history: ids returned by the in-memory create, in call order

dbVars  == <<db, seq, now, last, deleted, pristine, created>>
memVars == <<tickets, next_id, cli, created_ids>>
vars    == <<db, seq, now, last, deleted, pristine, created, reqs,
             tickets, next_id, cli, created_ids>>

----
\* Bounds of the model.
MaxId      == 2   \* tickets created in the persistent store in one run
MaxClock   == 2   \* ticks of the clock in one run
MaxRequests == 2  \* HTTP requests received in one run
MaxTickets == 3   \* tickets created in the in-memory store in one run

\* Python's None.
None == "None"

\* class Priority(str, Enum) and class Status(str, Enum): members are their string values.
Priority == {"LOW", "MED", "HIGH"}
Status   == {"BACKLOG", "DONE"}

\* Titles a caller may pass; the empty title is the one the validation is about.
Titles == {"", "a"}

Fields == {"title", "priority", "status"}

\* Truth value of an Optional[str-Enum] or Optional[str] in an `if`.
Truthy(x) == x # None /\ x # ""

Range(s) == {s[i] : i \in DOMAIN s}

\* A ticket passes the filters given; None is a filter not given.
Matches(r, status, priority) ==
    /\ status # None => r.status = status
    /\ priority # None => r.priority = priority

----
\* Request schemas of the persistent variant.

\* TicketBase / TicketCreate: title is a plain str, priority and status default.
TicketCreate == [title : Titles, priority : Priority, status : Status]

\* TicketUpdate: every field Optional and None by default; fields_set is what the
\* caller explicitly supplied (pydantic's model_fields_set), possibly as None. The
\* values drawn: either title or an explicit None, HIGH or an explicit None, DONE or
\* an explicit None.
TicketUpdate ==
    {d \in [title : Titles \cup {None}, priority : {"HIGH", None},
            status : {"DONE", None}, fields_set : SUBSET Fields] :
        /\ "title" \notin d.fields_set => d.title = None
        /\ "priority" \notin d.fields_set => d.priority = None
        /\ "status" \notin d.fields_set => d.status = None}

\* Mutant: model_dump() without exclude_unset, which also dumps the unset defaults.
model_dump_all(ticket_data) ==
    [f \in Fields |->
        CASE f = "title" -> ticket_data.title
          [] f = "priority" -> ticket_data.priority
          [] f = "status" -> ticket_data.status]

\* ticket_data.model_dump(exclude_unset=True): the explicitly supplied fields only.
model_dump(ticket_data) ==
    [f \in ticket_data.fields_set |->
        CASE f = "title" -> ticket_data.title
          [] f = "priority" -> ticket_data.priority
          [] f = "status" -> ticket_data.status]

----
\* The `ticket` table.

\* class Ticket(SQLModel, table=True): a row built from a TicketCreate; id is None
\* until the table assigns it, both timestamps default to utcnow.
Ticket(ticket_data, t) ==
    [id |-> 0, title |-> ticket_data.title, priority |-> ticket_data.priority,
     status |-> ticket_data.status, created_at |-> t, updated_at |-> t]

\* Columns title, priority and status are declared non-Optional: NOT NULL.
NotNull(row) == row.title # None /\ row.priority # None /\ row.status # None

\* Mutant: an identity that follows the largest id stored, as a rowid does.
NextIdentityMax(sq) ==
    IF DOMAIN db = {} THEN 1 ELSE (CHOOSE m \in DOMAIN db : \A i \in DOMAIN db : i <= m) + 1

\* The identity mechanism of the primary key: the next value of the sequence.
NextIdentity(sq) == sq + 1

\* select(Ticket).where(Ticket.id == ticket_id)
SelectById(table, ticket_id) == {table[i] : i \in {j \in DOMAIN table : table[j].id = ticket_id}}

\* result.first(): the first row or None (here: the empty or one-element sequence).
First(rows) == IF rows = {} THEN <<>> ELSE <<CHOOSE r \in rows : TRUE>>

\* for field, value in update_data.items(): setattr(ticket, field, value)
SetAttrs(ticket, update_data) ==
    [f \in DOMAIN ticket |-> IF f \in DOMAIN update_data THEN update_data[f] ELSE ticket[f]]

\* session.commit() of a loaded row: an UPDATE is emitted only for columns whose
\* value changed, and only then does onupdate refresh updated_at.
Flush(old, new, t) == IF new = old THEN old ELSE [new EXCEPT !.updated_at = t]

\* The record of a call on the store.
Call(op, ticket_id, title, priority, status, fields_set, ret, out) ==
    [op |-> op, ticket_id |-> ticket_id, title |-> title, priority |-> priority,
     status |-> status, fields_set |-> fields_set, ret |-> ret, out |-> out]

Drop(f, i) == [j \in DOMAIN f \ {i} |-> f[j]]

----
\* Operations of backend/storage.py, TicketStorage over one session per call.

create(ticket_data) ==
    /\ seq < MaxId
    /\ LET db_ticket == [Ticket(ticket_data, now) EXCEPT !.id = NextIdentity(seq)]
       IN /\ db' = [i \in DOMAIN db \cup {db_ticket.id} |->
                        IF i = db_ticket.id THEN db_ticket ELSE db[i]]
          /\ seq' = db_ticket.id
          /\ last' = Call("create", 0, ticket_data.title, ticket_data.priority,
                          ticket_data.status, Fields, "Ticket", <<db_ticket>>)
          /\ pristine' = [i \in DOMAIN pristine \cup {db_ticket.id} |->
                             IF i = db_ticket.id THEN db_ticket ELSE pristine[i]]
          /\ created' = created \cup {db_ticket.id}
    /\ UNCHANGED <<now, deleted, memVars, reqs>>

\* Mutant: the query of get without its where clause.
get_any(ticket_id) ==
    /\ LET ticket == First({db[i] : i \in DOMAIN db})
       IN last' = Call("get", ticket_id, None, None, None, {},
                       IF ticket = <<>> THEN "None" ELSE "Ticket", ticket)
    /\ UNCHANGED <<db, seq, now, deleted, pristine, memVars, created, reqs>>

get(ticket_id) ==
    /\ LET ticket == First(SelectById(db, ticket_id))
       IN last' = Call("get", ticket_id, None, None, None, {},
                       IF ticket = <<>> THEN "None" ELSE "Ticket", ticket)
    /\ UNCHANGED <<db, seq, now, deleted, pristine, memVars, created, reqs>>

\* Mutant: `elif priority:`, the priority filter dropped when a status is given.
WhereElif(table, status, priority) ==
    LET all == {table[i] : i \in DOMAIN table}
    IN IF Truthy(status) THEN {r \in all : r.status = status}
       ELSE IF Truthy(priority) THEN {r \in all : r.priority = priority} ELSE all

\* statement.where(...) under `if status:` / `if priority:`: the rows the query keeps.
Where(table, status, priority) ==
    LET all == {table[i] : i \in DOMAIN table}
        by_status == IF Truthy(status) THEN {r \in all : r.status = status} ELSE all
    IN IF Truthy(priority) THEN {r \in by_status : r.priority = priority} ELSE by_status

\* Mutant: order_by(Ticket.updated_at.desc()), most recently touched first.
OrderByUpdatedDesc(rows) ==
    {s \in [1..Cardinality(rows) -> rows] :
        /\ \A i, j \in DOMAIN s : i # j => s[i] # s[j]
        /\ \A i, j \in DOMAIN s : i < j => s[i].updated_at >= s[j].updated_at}

\* statement.order_by(Ticket.created_at.desc()): every order of the rows the table may
\* return, newest first; rows of equal created_at come in any order.
OrderByCreatedDesc(rows) ==
    {s \in [1..Cardinality(rows) -> rows] :
        /\ \A i, j \in DOMAIN s : i # j => s[i] # s[j]
        /\ \A i, j \in DOMAIN s : i < j => s[i].created_at >= s[j].created_at}

list_all(status, priority) ==
    /\ \E result \in OrderByCreatedDesc(Where(db, status, priority)) :
          last' = Call("list_all", 0, None, priority, status, {}, "List", result)
    /\ UNCHANGED <<db, seq, now, deleted, pristine, memVars, created, reqs>>

\* Mutant: an upsert, the `if ticket:` guard replaced by inserting a default row.
CommitUpsert(op, ticket_id, ticket_data, update_data) ==
    LET ticket == First(SelectById(db, ticket_id))
        row == IF ticket = <<>>
               THEN [id |-> ticket_id, title |-> "a", priority |-> "MED",
                     status |-> "BACKLOG", created_at |-> now, updated_at |-> now]
               ELSE ticket[1]
        assigned == SetAttrs(row, update_data)
    IN IF NotNull(assigned)
       THEN /\ db' = [i \in DOMAIN db \cup {ticket_id} |->
                         IF i = ticket_id THEN Flush(row, assigned, now) ELSE db[i]]
            /\ last' = Call(op, ticket_id, ticket_data.title, ticket_data.priority,
                            ticket_data.status, ticket_data.fields_set, "Ticket",
                            <<db'[ticket_id]>>)
       ELSE /\ last' = Call(op, ticket_id, ticket_data.title, ticket_data.priority,
                            ticket_data.status, ticket_data.fields_set,
                            "IntegrityError", <<>>)
            /\ UNCHANGED db

\* The body shared by update, update_status and update_priority once the row is
\* loaded: assign, commit (IntegrityError on a NULL in a NOT NULL column, nothing
\* written), refresh.
Commit(op, ticket_id, ticket_data, update_data) ==
    LET ticket == First(SelectById(db, ticket_id))
    IN IF ticket = <<>>
       THEN /\ last' = Call(op, ticket_id, ticket_data.title, ticket_data.priority,
                            ticket_data.status, ticket_data.fields_set, "None", <<>>)
            /\ UNCHANGED db
       ELSE LET assigned == SetAttrs(ticket[1], update_data)
            IN IF NotNull(assigned)
               THEN /\ db' = [db EXCEPT ![ticket[1].id] = Flush(ticket[1], assigned, now)]
                    /\ last' = Call(op, ticket_id, ticket_data.title, ticket_data.priority,
                                    ticket_data.status, ticket_data.fields_set, "Ticket",
                                    <<db'[ticket[1].id]>>)
               ELSE /\ last' = Call(op, ticket_id, ticket_data.title, ticket_data.priority,
                                    ticket_data.status, ticket_data.fields_set,
                                    "IntegrityError", <<>>)
                    /\ UNCHANGED db

update(ticket_id, ticket_data) ==
    /\ Commit("update", ticket_id, ticket_data, model_dump(ticket_data))
    /\ pristine' = Drop(pristine, ticket_id)
    /\ UNCHANGED <<seq, now, deleted, memVars, created, reqs>>

update_status(ticket_id, status) ==
    /\ Commit("update_status", ticket_id,
              [title |-> None, priority |-> None, status |-> status, fields_set |-> {"status"}],
              [f \in {"status"} |-> status])
    /\ pristine' = Drop(pristine, ticket_id)
    /\ UNCHANGED <<seq, now, deleted, memVars, created, reqs>>

\* Mutant: `ticket.status = priority`, the assignment of update_status pasted unchanged.
update_priority_pasted(ticket_id, priority) ==
    /\ Commit("update_priority", ticket_id,
              [title |-> None, priority |-> priority, status |-> None, fields_set |-> {"priority"}],
              [f \in {"status"} |-> priority])
    /\ pristine' = Drop(pristine, ticket_id)
    /\ UNCHANGED <<seq, now, deleted, memVars, created, reqs>>

update_priority(ticket_id, priority) ==
    /\ Commit("update_priority", ticket_id,
              [title |-> None, priority |-> priority, status |-> None, fields_set |-> {"priority"}],
              [f \in {"priority"} |-> priority])
    /\ pristine' = Drop(pristine, ticket_id)
    /\ UNCHANGED <<seq, now, deleted, memVars, created, reqs>>

\* Mutant: delete whose statement has lost its where clause.
delete_all(ticket_id) ==
    /\ LET ticket == First(SelectById(db, ticket_id))
       IN IF ticket # <<>>
          THEN /\ db' = <<>>
               /\ last' = Call("delete", ticket_id, None, None, None, {}, "True", <<>>)
               /\ deleted' = deleted \cup {ticket_id}
          ELSE /\ last' = Call("delete", ticket_id, None, None, None, {}, "False", <<>>)
               /\ UNCHANGED <<db, deleted>>
    /\ pristine' = Drop(pristine, ticket_id)
    /\ UNCHANGED <<seq, now, memVars, created, reqs>>

\* Mutant: delete without its commit, the row stays.
delete_nocommit(ticket_id) ==
    /\ LET ticket == First(SelectById(db, ticket_id))
       IN IF ticket # <<>>
          THEN /\ last' = Call("delete", ticket_id, None, None, None, {}, "True", <<>>)
               /\ deleted' = deleted \cup {ticket_id}
               /\ UNCHANGED db
          ELSE /\ last' = Call("delete", ticket_id, None, None, None, {}, "False", <<>>)
               /\ UNCHANGED <<db, deleted>>
    /\ pristine' = Drop(pristine, ticket_id)
    /\ UNCHANGED <<seq, now, memVars, created, reqs>>

delete(ticket_id) ==
    /\ LET ticket == First(SelectById(db, ticket_id))
       IN IF ticket # <<>>
          THEN /\ db' = Drop(db, ticket[1].id)
               /\ last' = Call("delete", ticket_id, None, None, None, {}, "True", <<>>)
               /\ deleted' = deleted \cup {ticket_id}
          ELSE /\ last' = Call("delete", ticket_id, None, None, None, {}, "False", <<>>)
               /\ UNCHANGED <<db, deleted>>
    /\ pristine' = Drop(pristine, ticket_id)
    /\ UNCHANGED <<seq, now, memVars, created, reqs>>

----
\* The in-memory variant: the pydantic Ticket of src/models.py held by the store
\* behind the CLI, a mapping from id to record that keeps insertion order.

\* class Ticket(BaseModel): title has min_length=1; a ValidationError is the empty
\* sequence, a valid record the one-element sequence.
TicketModel(id, title, priority, status) ==
    IF Len(title) < 1 THEN <<>>
    ELSE <<[id |-> id, title |-> title, priority |-> priority, status |-> status]>>

\* Mutant: the id taken from the number of stored tickets.
storage_create_len(title, priority, status) ==
    LET ticket == TicketModel(Len(tickets) + 1, title, priority, status)
    IN IF ticket = <<>>
       THEN [raised |-> TRUE, ticket |-> <<>>, tickets |-> tickets, next_id |-> next_id]
       ELSE [raised |-> FALSE, ticket |-> ticket, tickets |-> Append(tickets, ticket[1]),
             next_id |-> next_id + 1]

\* storage.create(title, priority, status): the record under the next id.
storage_create(title, priority, status) ==
    LET ticket == TicketModel(next_id, title, priority, status)
    IN IF ticket = <<>>
       THEN [raised |-> TRUE, ticket |-> <<>>, tickets |-> tickets, next_id |-> next_id]
       ELSE [raised |-> FALSE, ticket |-> ticket, tickets |-> Append(tickets, ticket[1]),
             next_id |-> next_id + 1]

\* storage.get(ticket_id): the record or None.
storage_get(ticket_id) ==
    LET at == {i \in DOMAIN tickets : tickets[i].id = ticket_id}
    IN IF at = {} THEN <<>> ELSE <<tickets[CHOOSE i \in at : TRUE]>>

\* storage.list_all(): the records in insertion order.
storage_list_all == tickets

\* [t for t in ... if keep(t)]: one pass over the records, appending those kept.
RECURSIVE Comprehension(_, _, _)
Comprehension(list, field, value) ==
    IF list = <<>> THEN <<>>
    ELSE LET rest == Comprehension(Tail(list), field, value)
         IN IF Head(list)[field] = value THEN <<Head(list)>> \o rest ELSE rest

\* Mutant: the records of every other status.
storage_filter_by_status_ne(status) ==
    SelectSeq(tickets, LAMBDA t : t.status # status)

\* storage.filter_by_status(status)
storage_filter_by_status(status) == Comprehension(tickets, "status", status)

\* storage.filter_by_priority(priority)
storage_filter_by_priority(priority) == Comprehension(tickets, "priority", priority)

\* storage.update_status(ticket_id, status) and storage.update_priority(ticket_id,
\* priority): the record changed in place, or None.
storage_set(ticket_id, field, value) ==
    LET at == {i \in DOMAIN tickets : tickets[i].id = ticket_id}
    IN IF at = {} THEN [ticket |-> <<>>, tickets |-> tickets]
       ELSE LET i == CHOOSE j \in at : TRUE
                changed == [tickets[i] EXCEPT ![field] = value]
            IN [ticket |-> <<changed>>, tickets |-> [tickets EXCEPT ![i] = changed]]

\* storage.delete(ticket_id): whether a record was removed.
storage_delete(ticket_id) ==
    [removed |-> \E i \in DOMAIN tickets : tickets[i].id = ticket_id,
     tickets |-> SelectSeq(tickets, LAMBDA t : t.id # ticket_id)]

----
\* Commands of src/cli.py over the module's one storage.

\* What a command leaves behind: its arguments, the tickets it displayed, its exit code.
Ran(cmd, ticket_id, title, priority, status, shown, exit_code) ==
    [cmd |-> cmd, ticket_id |-> ticket_id, title |-> title, priority |-> priority,
     status |-> status, shown |-> shown, exit_code |-> exit_code]

cli_create(title, priority, status) ==
    /\ next_id <= MaxTickets
    /\ LET r == storage_create(title, priority, status)
       IN /\ tickets' = r.tickets
          /\ next_id' = r.next_id
          /\ created_ids' = IF r.raised THEN created_ids ELSE Append(created_ids, r.ticket[1].id)
          /\ cli' = Ran("create", 0, title, priority, status, r.ticket,
                        IF r.raised THEN 1 ELSE 0)
    /\ UNCHANGED <<dbVars, reqs>>

cli_list(status, priority) ==
    /\ LET shown == IF Truthy(status) THEN storage_filter_by_status(status)
                    ELSE IF Truthy(priority) THEN storage_filter_by_priority(priority)
                    ELSE storage_list_all
       IN cli' = Ran("list", 0, None, priority, status, shown, 0)
    /\ UNCHANGED <<tickets, next_id, created_ids, dbVars, reqs>>

cli_get(ticket_id) ==
    /\ LET ticket == storage_get(ticket_id)
       IN cli' = Ran("get", ticket_id, None, None, None, ticket,
                     IF ticket # <<>> THEN 0 ELSE 1)
    /\ UNCHANGED <<tickets, next_id, created_ids, dbVars, reqs>>

cli_update_status(ticket_id, status) ==
    /\ LET r == storage_set(ticket_id, "status", status)
       IN /\ tickets' = r.tickets
          /\ cli' = Ran("update-status", ticket_id, None, None, status, r.ticket,
                        IF r.ticket # <<>> THEN 0 ELSE 1)
    /\ UNCHANGED <<next_id, created_ids, dbVars, reqs>>

cli_update_priority(ticket_id, priority) ==
    /\ LET r == storage_set(ticket_id, "priority", priority)
       IN /\ tickets' = r.tickets
          /\ cli' = Ran("update-priority", ticket_id, None, priority, None, r.ticket,
                        IF r.ticket # <<>> THEN 0 ELSE 1)
    /\ UNCHANGED <<next_id, created_ids, dbVars, reqs>>

\* Mutant: delete without its `raise typer.Exit(code=1)`.
cli_delete_exit0(ticket_id) ==
    /\ LET r == storage_delete(ticket_id)
       IN /\ tickets' = r.tickets
          /\ cli' = Ran("delete", ticket_id, None, None, None, <<>>, 0)
    /\ UNCHANGED <<next_id, created_ids, dbVars, reqs>>

cli_delete(ticket_id) ==
    /\ LET r == storage_delete(ticket_id)
       IN /\ tickets' = r.tickets
          /\ cli' = Ran("delete", ticket_id, None, None, None, <<>>,
                        IF r.removed THEN 0 ELSE 1)
    /\ UNCHANGED <<next_id, created_ids, dbVars, reqs>>

----
\* The state after construction and the two specifications.

Init ==
    /\ db = <<>>
    /\ seq = 0
    /\ now = 0
    /\ last = Call("init", 0, None, None, None, {}, "None", <<>>)
    /\ deleted = {}
    /\ pristine = <<>>
    /\ created = {}
    /\ reqs = <<>>
    /\ tickets = <<>>
    /\ next_id = 1
    /\ cli = Ran("init", 0, None, None, None, <<>>, 0)
    /\ created_ids = <<>>

\* Ids a caller may name: those the store has handed out and those it has not yet.
Ids == 1..MaxId

Next ==
    \/ \E ticket_data \in TicketCreate : create(ticket_data)
    \/ \E ticket_id \in Ids : get(ticket_id)
    \/ \E status \in Status \cup {None}, priority \in Priority \cup {None} :
          list_all(status, priority)
    \/ \E ticket_id \in Ids, ticket_data \in TicketUpdate : update(ticket_id, ticket_data)
    \/ \E ticket_id \in Ids, status \in Status : update_status(ticket_id, status)
    \/ \E ticket_id \in Ids, priority \in Priority : update_priority(ticket_id, priority)
    \/ \E ticket_id \in Ids : delete(ticket_id)

Spec == Init /\ [][Next]_vars

\* datetime.utcnow advances between calls, up to MaxClock.
Tick ==
    /\ now < MaxClock
    /\ now' = now + 1
    /\ UNCHANGED <<db, seq, last, deleted, pristine, created, reqs, memVars>>

\* The calls drawn while the clock runs: titled tickets of two priorities, updates
\* that supply values and no explicit None.
TimeCreate == {d \in TicketCreate : d.title = "a" /\ d.priority \in {"MED", "HIGH"} /\ d.status = "BACKLOG"}

TimeUpdate == {d \in TicketUpdate : \A f \in d.fields_set : d[f] # None /\ d[f] # ""}

\* The persistent store with time passing between its calls.
NextTime ==
    \/ Tick
    \/ \E ticket_data \in TimeCreate : create(ticket_data)
    \/ \E priority \in {"HIGH", None} : list_all(None, priority)
    \/ \E ticket_id \in Ids, ticket_data \in TimeUpdate : update(ticket_id, ticket_data)
    \/ \E ticket_id \in Ids, status \in Status : update_status(ticket_id, status)
    \/ \E ticket_id \in Ids, priority \in {"MED", "HIGH"} : update_priority(ticket_id, priority)

SpecTime == Init /\ [][NextTime]_vars

----
\* The HTTP handlers of backend/main.py over the persistent store, one session per
\* request, requests interleaved at their awaits: the handler's existence check
\* (storage.get), then inside the store call the select, the commit and the refresh.
\* Rows loaded by the existence check stay in the session's identity map: the second
\* select does not overwrite their attributes.

HttpUpdates == {"update_ticket", "update_ticket_status", "update_ticket_priority"}

Request(handler, ticket_id, data, pc, loaded, ret, rowcount, status_code, body) ==
    [handler |-> handler, ticket_id |-> ticket_id, data |-> data, pc |-> pc,
     loaded |-> loaded, ret |-> ret, rowcount |-> rowcount,
     status_code |-> status_code, body |-> body]

\* A request arrives: its handler and the values the store call will assign.
request(handler, ticket_id, data) ==
    /\ Len(reqs) < MaxRequests
    /\ reqs' = Append(reqs, Request(handler, ticket_id, data, "get", <<>>, "None", 0, 0, <<>>))
    /\ UNCHANGED <<dbVars, memVars>>

\* existing = await storage.get(ticket_id); if not existing: raise HTTPException(404)
handler_get(r) ==
    /\ reqs[r].pc = "get"
    /\ LET existing == First(SelectById(db, reqs[r].ticket_id))
       IN IF existing = <<>>
          THEN reqs' = [reqs EXCEPT ![r].pc = "done", ![r].status_code = 404]
          ELSE reqs' = [reqs EXCEPT ![r].pc = "exec", ![r].loaded = existing]
    /\ UNCHANGED <<dbVars, memVars>>

\* result = await self.session.exec(statement); ticket = result.first() inside
\* storage.update, update_status, update_priority and delete. No row: the update
\* methods return None, which the handler returns and the response model rejects
\* (500); delete returns False, which the handler ignores (204).
exec_select(r) ==
    /\ reqs[r].pc = "exec"
    /\ LET ticket == First(SelectById(db, reqs[r].ticket_id))
       IN IF ticket # <<>>
          THEN reqs' = [reqs EXCEPT ![r].pc = "commit"]
          ELSE IF reqs[r].handler = "delete_ticket"
               THEN reqs' = [reqs EXCEPT ![r].pc = "done", ![r].ret = "False",
                                         ![r].status_code = 204]
               ELSE reqs' = [reqs EXCEPT ![r].pc = "done", ![r].ret = "None",
                                         ![r].status_code = 500]
    /\ UNCHANGED <<dbVars, memVars>>

\* Mutant: a commit that writes every column of the loaded row, not the changed ones.
session_commit_row(r) ==
    /\ reqs[r].pc = "commit"
    /\ LET ticket_id == reqs[r].ticket_id
           assigned == SetAttrs(reqs[r].loaded[1], reqs[r].data)
       IN IF reqs[r].handler = "delete_ticket"
          THEN /\ reqs' = [reqs EXCEPT ![r].pc = "done", ![r].ret = "True",
                                       ![r].status_code = 204,
                                       ![r].rowcount = IF ticket_id \in DOMAIN db THEN 1 ELSE 0]
               /\ db' = Drop(db, ticket_id)
               /\ deleted' = IF ticket_id \in DOMAIN db THEN deleted \cup {ticket_id} ELSE deleted
          ELSE /\ IF ticket_id \notin DOMAIN db
                  THEN /\ reqs' = [reqs EXCEPT ![r].pc = "done", ![r].ret = "StaleDataError",
                                               ![r].status_code = 500]
                       /\ UNCHANGED db
                  ELSE /\ reqs' = [reqs EXCEPT ![r].pc = "refresh", ![r].rowcount = 1]
                       /\ db' = [db EXCEPT ![ticket_id] = [assigned EXCEPT !.updated_at = now]]
               /\ UNCHANGED deleted
    /\ pristine' = Drop(pristine, reqs[r].ticket_id)
    /\ UNCHANGED <<seq, now, last, created, memVars>>

\* await self.session.commit(): the flush and the COMMIT. An update writes the columns
\* whose assigned value differs from the loaded one, and updated_at with them; no
\* changed column, no statement; a NULL in a NOT NULL column is an IntegrityError; a
\* row gone meanwhile is a StaleDataError. A delete of a row gone meanwhile matches no
\* row, which the session only warns about.
session_commit(r) ==
    /\ reqs[r].pc = "commit"
    /\ LET ticket_id == reqs[r].ticket_id
           assigned == SetAttrs(reqs[r].loaded[1], reqs[r].data)
           dirty == {f \in DOMAIN reqs[r].data : assigned[f] # reqs[r].loaded[1][f]}
       IN IF reqs[r].handler = "delete_ticket"
          THEN /\ reqs' = [reqs EXCEPT ![r].pc = "done", ![r].ret = "True",
                                       ![r].status_code = 204,
                                       ![r].rowcount = IF ticket_id \in DOMAIN db THEN 1 ELSE 0]
               /\ db' = Drop(db, ticket_id)
               /\ deleted' = IF ticket_id \in DOMAIN db THEN deleted \cup {ticket_id} ELSE deleted
          ELSE /\ IF dirty = {}
                  THEN /\ reqs' = [reqs EXCEPT ![r].pc = "refresh"]
                       /\ UNCHANGED db
                  ELSE IF ~NotNull(assigned)
                  THEN /\ reqs' = [reqs EXCEPT ![r].pc = "done", ![r].ret = "IntegrityError",
                                               ![r].status_code = 500]
                       /\ UNCHANGED db
                  ELSE IF ticket_id \notin DOMAIN db
                  THEN /\ reqs' = [reqs EXCEPT ![r].pc = "done", ![r].ret = "StaleDataError",
                                               ![r].status_code = 500]
                       /\ UNCHANGED db
                  ELSE /\ reqs' = [reqs EXCEPT ![r].pc = "refresh", ![r].rowcount = 1]
                       /\ db' = [db EXCEPT ![ticket_id] =
                                    [f \in DOMAIN @ |->
                                        IF f \in dirty THEN assigned[f]
                                        ELSE IF f = "updated_at" THEN now ELSE @[f]]]
               /\ UNCHANGED deleted
    /\ pristine' = Drop(pristine, reqs[r].ticket_id)
    /\ UNCHANGED <<seq, now, last, created, memVars>>

\* await self.session.refresh(ticket); return ticket: the row as stored now is the
\* body of the 200 response; a row gone meanwhile is an InvalidRequestError.
session_refresh(r) ==
    /\ reqs[r].pc = "refresh"
    /\ LET ticket == First(SelectById(db, reqs[r].ticket_id))
       IN IF ticket = <<>>
          THEN reqs' = [reqs EXCEPT ![r].pc = "done", ![r].ret = "InvalidRequestError",
                                    ![r].status_code = 500]
          ELSE reqs' = [reqs EXCEPT ![r].pc = "done", ![r].ret = "Ticket",
                                    ![r].status_code = 200, ![r].body = ticket]
    /\ UNCHANGED <<dbVars, memVars>>

\* The requests drawn: POST bodies of one titled ticket, PUT bodies that supply a
\* status or a priority and a status, both PATCH routes, DELETE.
HttpCreate == {d \in TicketCreate : d.title = "a" /\ d.priority = "MED" /\ d.status = "BACKLOG"}

HttpUpdate == {d \in TimeUpdate : d.fields_set \in {{"status"}, {"priority", "status"}}}

Routes ==
    {<<"update_ticket", model_dump(d)>> : d \in HttpUpdate}
        \cup {<<"update_ticket_status", [f \in {"status"} |-> s]>> : s \in Status}
        \cup {<<"update_ticket_priority", [f \in {"priority"} |-> p]>> : p \in {"LOW", "HIGH"}}
        \cup {<<"delete_ticket", [f \in {} |-> None]>>}

NextHttp ==
    \/ \E ticket_data \in HttpCreate : create(ticket_data)
    \/ \E route \in Routes, ticket_id \in Ids : request(route[1], ticket_id, route[2])
    \/ \E r \in DOMAIN reqs : handler_get(r)
    \/ \E r \in DOMAIN reqs : exec_select(r)
    \/ \E r \in DOMAIN reqs : session_commit(r)
    \/ \E r \in DOMAIN reqs : session_refresh(r)

SpecHttp == Init /\ [][NextHttp]_vars

MemIds == 1..MaxTickets

NextMem ==
    \/ \E title \in Titles, priority \in Priority, status \in Status :
          cli_create(title, priority, status)
    \/ \E status \in Status \cup {None}, priority \in Priority \cup {None} :
          cli_list(status, priority)
    \/ \E ticket_id \in MemIds : cli_get(ticket_id)
    \/ \E ticket_id \in MemIds, status \in Status : cli_update_status(ticket_id, status)
    \/ \E ticket_id \in MemIds, priority \in Priority : cli_update_priority(ticket_id, priority)
    \/ \E ticket_id \in MemIds : cli_delete(ticket_id)

SpecMem == Init /\ [][NextMem]_vars

----
\* Claims about the persistent store, checked under Spec.

Rows == {db[i] : i \in DOMAIN db}

Updates == {"update", "update_status", "update_priority"}

\* C2: delete(id) returns True exactly when the id has a record, which it then
\* removes; it returns True at most once per id, False for an id already deleted
\* or never created, and get(id) is absent in every state after the True.
DeleteTrueOnce ==
    [][/\ last'.op = "delete" =>
            /\ last'.ret \in {"True", "False"}
            /\ (last'.ret = "True") = (SelectById(db, last'.ticket_id) # {})
            /\ last'.ticket_id \in deleted => last'.ret = "False"
            /\ last'.ret = "True" => SelectById(db', last'.ticket_id) = {}
       /\ \A id \in deleted' : First(SelectById(db', id)) = <<>>]_vars

\* C2 witness: a second delete of an id that once existed has returned False.
DeleteTwiceSeen ==
    /\ last.op = "delete" /\ last.ret = "False" /\ last.ticket_id \in deleted
    /\ Rows # {}

\* C3: every stored ticket has a non-empty title, a priority of the enumeration and
\* a status of the enumeration.
StoredFieldsValid ==
    \A r \in Rows : r.title # "" /\ r.title # None /\ r.priority \in Priority /\ r.status \in Status

\* C4: create with an empty title fails with a ValidationError and changes neither
\* the records nor the id the next create receives.
CreateEmptyTitleRejected ==
    [][last'.op = "create" /\ last'.title = "" =>
          last'.ret = "ValidationError" /\ db' = db /\ seq' = seq]_vars

\* C5: update, update_status and update_priority of an id with no record return
\* None and leave the set of ids and every field of every record as they were.
UpdateAbsentNoEffect ==
    [][last'.op \in Updates /\ SelectById(db, last'.ticket_id) = {} =>
          last'.ret = "None" /\ last'.out = <<>> /\ db' = db /\ seq' = seq]_vars

\* C5 witness: an update of an absent id has returned None on a store that holds a record.
UpdateAbsentSeen ==
    /\ last.op \in Updates /\ last.ret = "None" /\ Rows # {}
    /\ last.ticket_id \in deleted

\* What update must leave in the record of ticket_id according to the supplied fields.
Overwritten(old, new, call) ==
    /\ new.id = old.id
    /\ \A f \in Fields : new[f] = IF f \in call.fields_set THEN call[f] ELSE old[f]

ListAllFilters ==
    last.op = "list_all" =>
        /\ Range(last.out) = {r \in Rows : Matches(r, last.status, last.priority)}
        /\ Len(last.out) = Cardinality(Range(last.out))

\* C8 witness: a list with both filters has returned a ticket and left out one that
\* matches the status only.
ListBothFiltersSeen ==
    /\ last.op = "list_all" /\ last.status # None /\ last.priority # None
    /\ Len(last.out) = 1
    /\ \E r \in Rows : r.status = last.status /\ r.priority # last.priority

\* C10: while no update or delete of X intervened, get(X) returns the record create
\* returned for X, equal in id, title, priority and status; get of an id with no
\* record returns None.
SameTicket(a, b) ==
    a.id = b.id /\ a.title = b.title /\ a.priority = b.priority /\ a.status = b.status

GetAfterCreate ==
    /\ \A id \in DOMAIN pristine : pristine[id].id = id
    /\ last.op = "get" =>
          /\ last.ret \in {"None", "Ticket"}
          /\ last.ticket_id \in DOMAIN pristine =>
                /\ last.ret = "Ticket"
                /\ SameTicket(last.out[1], pristine[last.ticket_id])
          /\ last.ticket_id \notin DOMAIN db => last.ret = "None" /\ last.out = <<>>

\* C10 witness: get has returned the second ticket created while the first is stored
\* too, and the store is not empty.
GetAfterCreateSeen ==
    /\ last.op = "get" /\ last.ret = "Ticket" /\ last.ticket_id = 2
    /\ DOMAIN pristine = {1, 2}
    /\ ~SameTicket(pristine[1], [pristine[2] EXCEPT !.id = 1])

\* C14: no call changes more than one record: create leaves every existing record as
\* it was; update, update_status, update_priority and delete of id X leave every
\* record of another id stored and unchanged and add none; get and list_all change
\* nothing.
OneRecordPerCall ==
    [][/\ last'.op = "create" =>
            \A i \in DOMAIN db : i \in DOMAIN db' /\ db'[i] = db[i]
       /\ last'.op \in Updates \cup {"delete"} =>
            /\ DOMAIN db' \subseteq DOMAIN db
            /\ \A i \in DOMAIN db \ {last'.ticket_id} : i \in DOMAIN db' /\ db'[i] = db[i]
       /\ last'.op \in {"get", "list_all"} => db' = db /\ seq' = seq]_vars

\* C14 witness: a delete has removed one ticket and another is still stored.
OneRecordSeen ==
    /\ last.op = "delete" /\ last.ret = "True" /\ Rows # {}

\* C15: update_status(id, S) of an existing id returns and stores the record with
\* status S and its id, title and priority as before; update_priority(id, P) the
\* record with priority P and its id, title and status as before; a get(id) that
\* follows returns the same values.
SingleFieldUpdate ==
    [][/\ last'.op = "update_status" /\ last'.ticket_id \in DOMAIN db =>
            /\ last'.ret = "Ticket"
            /\ last'.out[1].status = last'.status
            /\ SameTicket(last'.out[1], [db[last'.ticket_id] EXCEPT !.status = last'.status])
            /\ SameTicket(db'[last'.ticket_id], last'.out[1])
       /\ last'.op = "update_priority" /\ last'.ticket_id \in DOMAIN db =>
            /\ last'.ret = "Ticket"
            /\ last'.out[1].priority = last'.priority
            /\ SameTicket(last'.out[1], [db[last'.ticket_id] EXCEPT !.priority = last'.priority])
            /\ SameTicket(db'[last'.ticket_id], last'.out[1])
       /\ /\ last.op \in {"update_status", "update_priority"} /\ last.ret = "Ticket"
          /\ last'.op = "get" /\ last'.ticket_id = last.ticket_id
          => last'.ret = "Ticket" /\ SameTicket(last'.out[1], last.out[1])]_vars

\* C15 witness: update_priority of the second ticket has returned it with the new
\* priority and the status it was created with.
SingleFieldUpdateSeen ==
    /\ last.op = "update_priority" /\ last.ret = "Ticket" /\ last.ticket_id = 2
    /\ last.out[1].priority = "LOW" /\ last.out[1].status = "DONE" /\ last.out[1].title = "a"
    /\ 1 \in DOMAIN db /\ db[1].priority = "HIGH"

TicketIds(rows) == {r.id : r \in rows}

\* C18: the stored ids are the ids create returned less those delete returned True
\* for; list_all() returns exactly these, each once, and a filtered list_all returns
\* none but these.
ListedIds ==
    /\ TicketIds(Rows) = created \ deleted
    /\ last.op = "list_all" =>
          /\ Len(last.out) = Cardinality(TicketIds(Range(last.out)))
          /\ TicketIds(Range(last.out)) \subseteq created \ deleted
          /\ last.status = None /\ last.priority = None =>
                TicketIds(Range(last.out)) = created \ deleted

\* C18 witness: list_all() has returned the one ticket left of two created.
ListedIdsSeen ==
    /\ last.op = "list_all" /\ last.status = None /\ last.priority = None
    /\ created = {1, 2} /\ deleted = {1} /\ Len(last.out) = 1

\* C19: create never returns an id it returned before, deleted or not, and no
\* update, update_status or update_priority changes the id of a record.
IdsNeverReused ==
    [][/\ last'.op = "create" =>
            /\ last'.out[1].id \notin created
            /\ last'.out[1].id \in created'
       /\ created \subseteq created'
       /\ \A i \in DOMAIN db \cap DOMAIN db' : db'[i].id = db[i].id
       /\ last'.op \in Updates /\ last'.ret = "Ticket" =>
            last'.out[1].id = last'.ticket_id]_vars

\* C19 witness: a create after the delete of ticket 1 has returned id 2.
IdsNeverReusedSeen ==
    /\ last.op = "create" /\ last.out[1].id = 2 /\ deleted = {1}

----
\* Claims about the in-memory store and the CLI, checked under SpecMem.

\* C1: the ids returned by create in one in-memory store are 1, 2, 3, ... in call
\* order: pairwise distinct, each greater than every earlier one, the first 1 and
\* each following one the previous plus 1, whatever other operations come between.
CreateIdsSequential ==
    /\ \A i \in DOMAIN created_ids : created_ids[i] = i
    /\ \A i, j \in DOMAIN created_ids : i < j => created_ids[i] < created_ids[j]

\* C1 witness: the third create has returned after a delete left two tickets stored.
CreateIdsSeen ==
    /\ Len(created_ids) = 3 /\ Len(tickets) = 2
    /\ cli.cmd = "create" /\ cli.exit_code = 0

\* C7: filter_by_status(S) and filter_by_priority(P) are exactly the sub-sequences of
\* list_all() with that status and that priority, in list_all's order, which is the
\* order of insertion.
FilterIsSubsequence ==
    /\ \A S \in Status :
          storage_filter_by_status(S) = SelectSeq(storage_list_all, LAMBDA t : t.status = S)
    /\ \A P \in Priority :
          storage_filter_by_priority(P) = SelectSeq(storage_list_all, LAMBDA t : t.priority = P)
    /\ \A i, j \in DOMAIN storage_list_all :
          i < j => storage_list_all[i].id < storage_list_all[j].id

\* C7 witness: two tickets of one status with a ticket of the other status stored
\* between them, and the list command has displayed the two through filter_by_status.
FilterSeen ==
    /\ Len(tickets) = 3
    /\ cli.cmd = "list" /\ cli.status = "BACKLOG"
    /\ Len(cli.shown) = 2 /\ cli.shown[1].id = 1 /\ cli.shown[2].id = 3
    /\ tickets[1].status = "BACKLOG" /\ tickets[2].status = "DONE"
    /\ tickets[3].status = "BACKLOG"
    /\ tickets[1].priority = "HIGH" /\ tickets[2].priority = "LOW"
    /\ tickets[3].priority = "HIGH"

\* C9: the list command given both a status and a priority displays exactly the
\* tickets with that status and that priority.
CliListBothFilters ==
    cli.cmd = "list" /\ cli.status # None /\ cli.priority # None =>
        /\ Range(cli.shown) =
              {t \in Range(tickets) : t.status = cli.status /\ t.priority = cli.priority}
        /\ Len(cli.shown) = Cardinality(Range(cli.shown))

\* C13: get, update-status, update-priority and delete exit with code 1 exactly when
\* the id has no record in the store at that moment and with code 0 otherwise, and a
\* command that found no record leaves the store as it was.
CliExitCodes ==
    [][cli'.cmd \in {"get", "update-status", "update-priority", "delete"} =>
          /\ cli'.exit_code \in {0, 1}
          /\ (cli'.exit_code = 1) = (\A i \in DOMAIN tickets : tickets[i].id # cli'.ticket_id)
          /\ cli'.exit_code = 1 => tickets' = tickets /\ next_id' = next_id]_vars

\* C13 witness: update-status has exited with 1 on an id that was created and deleted, another ticket still stored.
CliNotFoundSeen ==
    /\ cli.cmd = "update-status" /\ cli.exit_code = 1
    /\ \E i \in DOMAIN created_ids : created_ids[i] = cli.ticket_id
    /\ tickets # <<>>

----
\* Claims about the timestamps of the persistent store, checked under SpecTime.

\* C16: after every successful update, update_status or update_priority, one whose
\* values equal the stored ones included, the ticket's updated_at is the time of the
\* call, and later than before whenever the clock has advanced since.
UpdatedAtRefreshed ==
    [][last'.op \in Updates /\ last'.ret = "Ticket" =>
          /\ db'[last'.ticket_id].updated_at = now
          /\ now > db[last'.ticket_id].updated_at =>
                db'[last'.ticket_id].updated_at > db[last'.ticket_id].updated_at]_vars

\* C17: list_all, filtered or not, returns the tickets newest first by created_at,
\* and no update changes the created_at of a ticket, hence its place among the others.
ListNewestFirst ==
    /\ [](last.op = "list_all" =>
            \A i, j \in DOMAIN last.out :
                last.out[i].created_at > last.out[j].created_at => i < j)
    /\ [][\A i \in DOMAIN db \cap DOMAIN db' : db'[i].created_at = db[i].created_at]_vars

\* C17 witness: two tickets listed, the newer first, the older one updated after the
\* newer was created.
ListNewestFirstSeen ==
    /\ last.op = "list_all" /\ Len(last.out) = 2
    /\ last.out[1].created_at > last.out[2].created_at
    /\ last.out[2].updated_at > last.out[1].created_at

----
\* Claims about interleaved HTTP requests, checked under SpecHttp.

Done(handlers) == {r \in DOMAIN reqs : reqs[r].pc = "done" /\ reqs[r].handler \in handlers}

\* C11: for PUT and both PATCH routes, in every interleaving, a store update that
\* found no record is answered with 404, and every answer other than 404 is a 200
\* that carries the updated ticket.
UpdateAbsentIs404 ==
    \A r \in Done(HttpUpdates) :
        /\ reqs[r].ret # "Ticket" => reqs[r].status_code = 404
        /\ reqs[r].status_code # 404 =>
              /\ reqs[r].status_code = 200
              /\ reqs[r].body # <<>>
              /\ \A f \in DOMAIN reqs[r].data : reqs[r].body[1][f] = reqs[r].data[f]

\* C12: a DELETE is answered with 204 only when its own delete removed the record and
\* with 404 otherwise, so of the DELETE requests on one id at most one is answered 204.
DeleteOnly204Once ==
    /\ \A r \in Done({"delete_ticket"}) :
          /\ reqs[r].status_code \in {204, 404}
          /\ reqs[r].status_code = 204 <=> reqs[r].rowcount = 1
    /\ \A r, s \in Done({"delete_ticket"}) :
          /\ reqs[r].ticket_id = reqs[s].ticket_id
          /\ reqs[r].status_code = 204 /\ reqs[s].status_code = 204
          => r = s

\* C20: when one PATCH of the status to S and one PATCH of the priority to P are the
\* only requests on an existing ticket and both have completed, however their reads
\* and commits interleaved, the ticket has status S and priority P.
NoLostUpdate ==
    \A r \in Done({"update_ticket_status"}), s \in Done({"update_ticket_priority"}) :
        /\ reqs[r].ticket_id = reqs[s].ticket_id
        /\ \A o \in DOMAIN reqs : reqs[o].ticket_id = reqs[r].ticket_id => o \in {r, s}
        /\ reqs[r].status_code # 404 /\ reqs[s].status_code # 404
        => /\ reqs[r].status_code = 200 /\ reqs[s].status_code = 200
           /\ reqs[r].ticket_id \in DOMAIN db
           /\ db[reqs[r].ticket_id].status = reqs[r].data.status
           /\ db[reqs[r].ticket_id].priority = reqs[s].data.priority

\* C20 witness: both writers have completed, each having read the row before the
\* other's commit (its loaded row lacks the other's value), and both values are stored.
NoLostUpdateSeen ==
    \E r \in Done({"update_ticket_status"}), s \in Done({"update_ticket_priority"}) :
        /\ reqs[r].ticket_id = reqs[s].ticket_id
        /\ reqs[r].status_code = 200 /\ reqs[s].status_code = 200
        /\ reqs[r].rowcount = 1 /\ reqs[s].rowcount = 1
        /\ reqs[r].loaded[1].priority # reqs[s].data.priority
        /\ reqs[s].loaded[1].status # reqs[r].data.status
        /\ db[reqs[r].ticket_id].status = reqs[r].data.status
        /\ db[reqs[r].ticket_id].priority = reqs[s].data.priority
====
